---- MODULE Spec2Model ----
(***************************************************************************)
(* A model of the pong simulation engine: structs.rs (Vec2, Object,        *)
(* ObjectCollider) and game.rs (GameState), driven by the host loop of     *)
(* main.rs.                                                                *)
(*                                                                         *)
(* Numbers.  The program computes in f32.  An f32 is modelled as an exact  *)
(* rational <<n, d>> in lowest terms with d > 0; the float specials are    *)
(* <<1, 0>> (+inf), <<-1, 0>> (-inf) and <<0, 0>> (NaN).  Rounding of the  *)
(* f32 operations is not modelled: every operation is exact.               *)
(***************************************************************************)
EXTENDS Integers, Sequences, FiniteSets, TLC

VARIABLES objects, control_id, ai_accuracy, paused, width, height, ticks, inputs, last, probe

vars == <<objects, control_id, ai_accuracy, paused, width, height, ticks, inputs, last, probe>>

---------------------------------------------------------------------------
(* f32 arithmetic, exact *)

Sgn(i) == IF i > 0 THEN 1 ELSE IF i < 0 THEN -1 ELSE 0

AbsInt(i) == IF i < 0 THEN -i ELSE i

RECURSIVE GCD(_, _)
GCD(a, b) == IF b = 0 THEN a ELSE GCD(b, a % b)

\* n/d in lowest terms; a zero denominator gives inf, -inf or NaN.
Rat(n, d) ==
    IF d = 0 THEN <<Sgn(n), 0>>
    ELSE LET g == GCD(AbsInt(n), AbsInt(d))
             s == IF d < 0 THEN -1 ELSE 1
         IN  <<s * (n \div g), s * (d \div g)>>

F(n) == <<n, 1>>

Zero == <<0, 1>>

One == <<1, 1>>

NaN == <<0, 0>>

IsNaN(a) == a = NaN

IsFinite(a) == a[2] > 0

\* IEEE addition: inf + -inf and anything with NaN give NaN.
Add(a, b) ==
    IF a[2] = 0 \/ b[2] = 0
    THEN IF IsNaN(a) \/ IsNaN(b) THEN NaN
         ELSE IF a[2] = 0 /\ b[2] = 0
              THEN (IF a[1] = b[1] THEN a ELSE NaN)
              ELSE (IF a[2] = 0 THEN a ELSE b)
    ELSE LET g == GCD(a[2], b[2])
         IN  Rat(a[1] * (b[2] \div g) + b[1] * (a[2] \div g), (a[2] \div g) * b[2])

Neg(a) == <<-a[1], a[2]>>

Sub(a, b) == Add(a, Neg(b))

\* IEEE multiplication: 0 * inf and anything with NaN give NaN.
Mul(a, b) ==
    IF a[2] = 0 \/ b[2] = 0
    THEN <<Sgn(a[1]) * Sgn(b[1]), 0>>
    ELSE LET g1 == GCD(AbsInt(a[1]), b[2])
             g2 == GCD(AbsInt(b[1]), a[2])
         IN  IF a[1] = 0 \/ b[1] = 0 THEN Zero
             ELSE <<(a[1] \div g1) * (b[1] \div g2), (a[2] \div g2) * (b[2] \div g1)>>

\* IEEE division: x / 0 is +-inf, 0 / 0 and inf / inf are NaN, x / inf is 0.
Div(a, b) ==
    IF IsNaN(a) \/ IsNaN(b) THEN NaN
    ELSE IF b[2] = 0 THEN (IF a[2] = 0 THEN NaN ELSE Zero)
    ELSE IF a[2] = 0 THEN (IF b[1] < 0 THEN Neg(a) ELSE a)
    ELSE IF b[1] = 0 THEN <<Sgn(a[1]), 0>>
    ELSE Mul(a, Rat(b[2], b[1]))

\* IEEE comparison: every comparison with NaN is false.
Lt(a, b) ==
    IF IsNaN(a) \/ IsNaN(b) THEN FALSE
    ELSE IF a[2] = 0 \/ b[2] = 0
         THEN (IF a[2] = 0 /\ b[2] = 0 THEN a[1] < b[1]
               ELSE IF a[2] = 0 THEN a[1] < 0 ELSE b[1] > 0)
    ELSE LET g == GCD(a[2], b[2])
         IN  a[1] * (b[2] \div g) < b[1] * (a[2] \div g)

Gt(a, b) == Lt(b, a)

Le(a, b) == ~IsNaN(a) /\ ~IsNaN(b) /\ ~Lt(b, a)

Ge(a, b) == Le(b, a)

AbsF(a) == <<AbsInt(a[1]), a[2]>>

\* f32::clamp: NaN stays NaN.
Clamp(a, lo, hi) == IF Lt(a, lo) THEN lo ELSE IF Gt(a, hi) THEN hi ELSE a

\* u1 * v1 > u2 * v2, decided from the signs and, for equal signs, from the
\* ratios, so that the products themselves are never formed.
ProdGt(u1, v1, u2, v2) ==
    LET s1 == Sgn(u1[1]) * Sgn(v1[1])
        s2 == Sgn(u2[1]) * Sgn(v2[1])
    IN  IF s1 # s2 THEN s1 > s2
        ELSE IF s1 = 0 THEN FALSE
        ELSE IF s1 > 0 THEN Gt(Div(AbsF(u1), AbsF(u2)), Div(AbsF(v2), AbsF(v1)))
        ELSE Lt(Div(AbsF(u1), AbsF(u2)), Div(AbsF(v2), AbsF(v1)))

---------------------------------------------------------------------------
(* structs.rs *)

Vec2(x, y) == [x |-> x, y |-> y]

VAdd(a, b) == Vec2(Add(a.x, b.x), Add(a.y, b.y))

\* Object::new(obj_type).set_size(x, y)
NewObject(obj_type, sx, sy) ==
    [obj_type |-> obj_type,
     position |-> Vec2(Zero, Zero),
     size |-> Vec2(sx, sy),
     velocity |-> Vec2(Zero, Zero),
     max_velocity |-> Vec2(F(2), F(2))]

Half(a) == Div(a, F(2))

\* reset with the right paddle placed at 95% of the width, its own width not
\* subtracted
ResetRightUninset(obj, w, h) ==
    CASE obj.obj_type = "Ball" ->
            [obj EXCEPT
                !.velocity = Vec2(Div(w, F(3200)), Zero),
                !.max_velocity = Vec2(Div(w, F(400)), Div(h, F(400))),
                !.position = Vec2(Sub(Half(w), Half(obj.size.x)),
                                  Sub(Half(h), Half(obj.size.y)))]
      [] obj.obj_type = "PaddleLeft" ->
            LET sy == Mul(h, Rat(1, 4))
            IN  [obj EXCEPT
                    !.size = Vec2(obj.size.x, sy),
                    !.position = Vec2(Mul(w, Rat(1, 20)), Sub(Half(h), Half(sy)))]
      [] obj.obj_type = "PaddleRight" ->
            LET sy == Mul(h, Rat(1, 4))
            IN  [obj EXCEPT
                    !.size = Vec2(obj.size.x, sy),
                    !.position = Vec2(Mul(w, Rat(19, 20)), Sub(Half(h), Half(sy)))]

\* reset with each paddle centred by the height it had before the call
ResetByOldSize(obj, w, h) ==
    CASE obj.obj_type = "Ball" ->
            [obj EXCEPT
                !.velocity = Vec2(Div(w, F(3200)), Zero),
                !.max_velocity = Vec2(Div(w, F(400)), Div(h, F(400))),
                !.position = Vec2(Sub(Half(w), Half(obj.size.x)),
                                  Sub(Half(h), Half(obj.size.y)))]
      [] obj.obj_type = "PaddleLeft" ->
            [obj EXCEPT
                !.size = Vec2(obj.size.x, Mul(h, Rat(1, 4))),
                !.position = Vec2(Mul(w, Rat(1, 20)), Sub(Half(h), Half(obj.size.y)))]
      [] obj.obj_type = "PaddleRight" ->
            [obj EXCEPT
                !.size = Vec2(obj.size.x, Mul(h, Rat(1, 4))),
                !.position = Vec2(Sub(Mul(w, Rat(19, 20)), obj.size.x),
                                  Sub(Half(h), Half(obj.size.y)))]

\* Object::reset
Reset(obj, w, h) ==
    CASE obj.obj_type = "Ball" ->
            [obj EXCEPT
                !.velocity = Vec2(Div(w, F(3200)), Zero),
                !.max_velocity = Vec2(Div(w, F(400)), Div(h, F(400))),
                !.position = Vec2(Sub(Half(w), Half(obj.size.x)),
                                  Sub(Half(h), Half(obj.size.y)))]
      [] obj.obj_type = "PaddleLeft" ->
            LET sy == Mul(h, Rat(1, 4))
            IN  [obj EXCEPT
                    !.size = Vec2(obj.size.x, sy),
                    !.position = Vec2(Mul(w, Rat(1, 20)), Sub(Half(h), Half(sy)))]
      [] obj.obj_type = "PaddleRight" ->
            LET sy == Mul(h, Rat(1, 4))
            IN  [obj EXCEPT
                    !.size = Vec2(obj.size.x, sy),
                    !.position = Vec2(Sub(Mul(w, Rat(19, 20)), obj.size.x),
                                      Sub(Half(h), Half(sy)))]

\* Object::get_center
GetCenter(obj) ==
    Vec2(Add(obj.position.x, Half(obj.size.x)), Add(obj.position.y, Half(obj.size.y)))

\* ObjectCollider::new / Object::get_collider
GetCollider(obj) ==
    [min |-> obj.position, max |-> VAdd(obj.position, obj.size), center |-> GetCenter(obj)]

\* ccw
Ccw(a, b, c) == ProdGt(Sub(c.y, a.y), Sub(b.x, a.x), Sub(b.y, a.y), Sub(c.x, a.x))

\* ObjectCollider::get_hitbox
GetHitbox(c) ==
    << <<Vec2(c.min.x, c.min.y), Vec2(c.max.x, c.min.y)>>,
       <<Vec2(c.min.x, c.min.y), Vec2(c.min.x, c.max.y)>>,
       <<Vec2(c.min.x, c.max.y), Vec2(c.max.x, c.max.y)>>,
       <<Vec2(c.max.x, c.max.y), Vec2(c.max.x, c.min.y)>> >>

\* ObjectCollider::is_colliding
IsColliding(self, other) ==
    LET sh == GetHitbox(self)
        oh == GetHitbox(other)
    IN  \E i \in 1..4 : \E j \in 1..4 :
            LET a == sh[i][1]
                b == sh[i][2]
                c == oh[j][1]
                d == oh[j][2]
            IN  Ccw(a, c, d) # Ccw(b, c, d) /\ Ccw(a, b, c) # Ccw(a, b, d)

---------------------------------------------------------------------------
(* game.rs: GameState::update *)

\* 0.0015, 1.15 and 1.2 of update
AiRate == Rat(3, 2000)

BounceGain == Rat(23, 20)

EdgeGain == Rat(6, 5)

\* update, lines 34-42: the ball track is the (position, velocity) of the
\* ball; None when the engine holds no ball.
Colliders(objs) == [i \in 1..Len(objs) |-> GetCollider(objs[i])]

HasBall(objs) == \E i \in 1..Len(objs) : objs[i].obj_type = "Ball"

\* The loop keeps the last ball it meets.
BallTrack(objs) ==
    LET i == CHOOSE k \in 1..Len(objs) :
                 /\ objs[k].obj_type = "Ball"
                 /\ \A m \in (k + 1)..Len(objs) : objs[m].obj_type # "Ball"
    IN  [pos |-> objs[i].position, vel |-> objs[i].velocity]

\* update, lines 52-55
Delta(obj, dt) == Vec2(Mul(obj.velocity.x, dt), Mul(obj.velocity.y, dt))

\* update, line 62
OutOfBounds(obj, w) ==
    LET center == GetCenter(obj)
    IN  Lt(center.x, Zero) \/ Gt(center.x, w)

\* update, line 72
AtEdge(obj, h) ==
    LET center == GetCenter(obj)
    IN  \/ Lt(center.y, Half(obj.size.y))
        \/ Gt(center.y, Sub(h, Half(obj.size.y)))

\* update, lines 68-69
Project(col, delta) == [col EXCEPT !.min = VAdd(col.min, delta), !.max = VAdd(col.max, delta)]

\* the response to a collision with the x-velocity damped (0.85) instead of
\* amplified
BounceDamped(st, center, other, maxv) ==
    LET vx == Neg(Clamp(Mul(st.vel.x, Rat(17, 20)), Neg(maxv.x), maxv.x))
        angle == Sub(center.y, other.center.y)
        traj == Clamp(Div(Mul(AbsF(angle), F(2)), center.y), Zero, One)
        vy == IF Ge(angle, Zero) THEN traj ELSE Neg(traj)
    IN  [vel |-> Vec2(vx, vy), delta |-> Vec2(Neg(st.delta.x), Neg(st.delta.y))]

\* the response to a collision with the x-velocity amplified and not clamped
BounceUnclamped(st, center, other, maxv) ==
    LET vx == Neg(Mul(st.vel.x, BounceGain))
        angle == Sub(center.y, other.center.y)
        traj == Clamp(Div(Mul(AbsF(angle), F(2)), center.y), Zero, One)
        vy == IF Ge(angle, Zero) THEN traj ELSE Neg(traj)
    IN  [vel |-> Vec2(vx, vy), delta |-> Vec2(Neg(st.delta.x), Neg(st.delta.y))]

\* update, lines 86-99: the response to one colliding collider.  st holds the
\* ball's velocity and delta as the loop has left them so far.
Bounce(st, center, other, maxv) ==
    LET vx == Neg(Clamp(Mul(st.vel.x, BounceGain), Neg(maxv.x), maxv.x))
        angle == Sub(center.y, other.center.y)
        traj == Clamp(Div(Mul(AbsF(angle), F(2)), center.y), Zero, One)
        vy == IF Ge(angle, Zero) THEN traj ELSE Neg(traj)
    IN  [vel |-> Vec2(vx, vy), delta |-> Vec2(Neg(st.delta.x), Neg(st.delta.y))]

\* update, lines 78-101: the loop over the colliders, from index o on.
RECURSIVE CollideFrom(_, _, _, _, _, _, _)
CollideFrom(o, i, st, proj, center, colliders, maxv) ==
    IF o > Len(colliders) THEN st
    ELSE IF o = i THEN CollideFrom(o + 1, i, st, proj, center, colliders, maxv)
    ELSE IF IsColliding(proj, colliders[o])
         THEN CollideFrom(o + 1, i, Bounce(st, center, colliders[o], maxv),
                          proj, center, colliders, maxv)
         ELSE CollideFrom(o + 1, i, st, proj, center, colliders, maxv)

\* update, lines 59-104 and 144: the ball
BallStep(obj, i, colliders, dt, w, h) ==
    LET delta == Delta(obj, dt)
        center == GetCenter(obj)
    IN  IF OutOfBounds(obj, w)
        THEN LET r == Reset(obj, w, h)
             IN  [r EXCEPT !.position = VAdd(r.position, delta)]
        ELSE IF AtEdge(obj, h)
        THEN [obj EXCEPT
                !.velocity = Vec2(obj.velocity.x, Neg(obj.velocity.y)),
                !.position = VAdd(obj.position,
                                  Vec2(delta.x, Neg(Mul(delta.y, EdgeGain))))]
        ELSE LET st == CollideFrom(1, i, [vel |-> obj.velocity, delta |-> delta],
                                   Project(colliders[i], delta), center, colliders,
                                   obj.max_velocity)
             IN  [obj EXCEPT !.velocity = st.vel,
                             !.position = VAdd(obj.position, st.delta)]

\* the approach test with a ball of zero x-velocity counted as approaching
IsIncomingOrStatic(col, track) ==
    IF Lt(col.center.x, track.pos.x) THEN Le(track.vel.x, Zero) ELSE Ge(track.vel.x, Zero)

\* update, lines 110-114
IsIncoming(col, track) ==
    IF Lt(col.center.x, track.pos.x) THEN Lt(track.vel.x, Zero) ELSE Gt(track.vel.x, Zero)

\* update, line 117
DefaultTarget(obj, h) == Sub(Half(h), Half(obj.size.y))

\* update, line 120: whether the interception branch, and its division, runs
Intercepts(obj, col, track, h) ==
    /\ IsIncoming(col, track)
    /\ Gt(DefaultTarget(obj, h), Zero)
    /\ Lt(DefaultTarget(obj, h), h)

\* the arrival y without its redirection into the field
InterceptYUnredirected(col, track, h) ==
    LET x_diff == Sub(col.center.x, track.pos.x)
        time == Div(x_diff, track.vel.x)
        y_move == Mul(track.vel.y, time)
    IN  Add(track.pos.y, y_move)

\* update, lines 121-131
InterceptY(col, track, h) ==
    LET x_diff == Sub(col.center.x, track.pos.x)
        time == Div(x_diff, track.vel.x)
        y_move == Mul(track.vel.y, time)
        y_pos == Add(track.pos.y, y_move)
    IN  IF Lt(y_pos, Zero) THEN Mul(h, Rat(1, 4))
        ELSE IF Gt(y_pos, h) THEN Mul(h, Rat(3, 4))
        ELSE y_pos

\* update, lines 117-132
Target(obj, col, track, h) ==
    IF Intercepts(obj, col, track, h) THEN InterceptY(col, track, h)
    ELSE DefaultTarget(obj, h)

\* the interpolation without its clamp to the field
InterpolateUnclamped(obj, y_tar, dt, h, acc) ==
    Add(obj.position.y,
        Mul(Sub(Sub(y_tar, Half(obj.size.y)), obj.position.y),
            Mul(Mul(dt, AiRate), acc)))

\* update, lines 136-139
Interpolate(obj, y_tar, dt, h, acc) ==
    Clamp(Add(obj.position.y,
              Mul(Sub(Sub(y_tar, Half(obj.size.y)), obj.position.y),
                  Mul(Mul(dt, AiRate), acc))),
          Zero, Sub(h, obj.size.y))

\* update, lines 106-140 and 144: the AI paddle
AiStep(obj, col, track, dt, h, acc) ==
    LET y == Interpolate(obj, Target(obj, col, track, h), dt, h, acc)
        moved == [obj EXCEPT !.position = Vec2(obj.position.x, y)]
    IN  [moved EXCEPT !.position = VAdd(moved.position, Delta(obj, dt))]

\* update, lines 141 and 144: any other object
PassiveStep(obj, dt) == [obj EXCEPT !.position = VAdd(obj.position, Delta(obj, dt))]

\* update, lines 45-145: one pass over the objects, for an unpaused engine
UpdateObjects(objs, dt, w, h, acc) ==
    LET colliders == Colliders(objs)
    IN  [i \in 1..Len(objs) |->
            CASE objs[i].obj_type = "Ball" -> BallStep(objs[i], i, colliders, dt, w, h)
              [] objs[i].obj_type = "PaddleLeft" /\ HasBall(objs) ->
                    AiStep(objs[i], colliders[i], BallTrack(objs), dt, h, acc)
              [] OTHER -> PassiveStep(objs[i], dt)]

\* GameState::reset_objects
ResetObjects(objs, w, h) == [i \in 1..Len(objs) |-> Reset(objs[i], w, h)]

---------------------------------------------------------------------------
(* The engine and its host as a state machine *)

\* Bounds of the model: unpaused ticks and input events in one run.
MaxTicks == 3

MaxInputs == 1

\* The field dimensions the host lays out (width, height), the elapsed times
\* (milliseconds) it feeds to update, the distances an input event moves the
\* controlled object by and the control indices it sets.
FieldDims == {<<F(800), F(600)>>, <<F(30), F(200)>>, <<F(20), F(20)>>}

DeltaTimes == {Zero, Rat(4000, 9), Rat(4000, 3)}

InputMoves == {F(30), F(-30)}

ControlIds == {1, 2}

\* The exact numbers of a run stay within the checker's integers: a tick is
\* explored only from states whose numbers have denominators up to MaxDen.
MaxDen == 200000

Dens(obj) ==
    {obj.position.x[2], obj.position.y[2], obj.velocity.x[2], obj.velocity.y[2]}

Representable(objs) == \A i \in 1..Len(objs) : \A d \in Dens(objs[i]) : d <= MaxDen

\* last: the operation that led to the state; for an update, its elapsed time
\* and the objects it started from.
Op(op, dt, pre) == [op |-> op, dt |-> dt, pre |-> pre]

Panicked == last.op = "panic"

\* probe: the colliders of the last direct call of is_colliding and its result;
\* no such call has been made in a run of the engine.
NoProbe == [self |-> <<>>, other |-> <<>>, hit |-> FALSE, called |-> FALSE]

LaidOut == width # Zero

\* GameState::new; the host has not read the window's dimensions yet.
Init ==
    /\ objects = <<>>
    /\ control_id = 0
    /\ ai_accuracy = Rat(3, 4)
    /\ paused = TRUE
    /\ width = Zero
    /\ height = Zero
    /\ ticks = 0
    /\ inputs = 0
    /\ last = Op("new", Zero, <<>>)
    /\ probe = NoProbe

\* The host fills the engine's public fields: the three objects and the
\* control index.
HostSetup(cid) ==
    /\ ~Panicked
    /\ objects = <<>>
    /\ objects' = <<NewObject("Ball", F(25), F(25)),
                    NewObject("PaddleLeft", F(25), F(100)),
                    NewObject("PaddleRight", F(25), F(100))>>
    /\ control_id' = cid
    /\ last' = Op("setup", Zero, <<>>)
    /\ UNCHANGED <<ai_accuracy, paused, width, height, ticks, inputs, probe>>

\* The host reads the field's dimensions (first frame, resize) and resets
\* every object: GameState::reset_objects.
HostLayout(d) ==
    /\ ~Panicked
    /\ objects # <<>>
    /\ width' = d[1]
    /\ height' = d[2]
    /\ objects' = ResetObjects(objects, d[1], d[2])
    /\ last' = Op("reset", Zero, <<>>)
    /\ UNCHANGED <<control_id, ai_accuracy, paused, ticks, inputs, probe>>

\* update without its pause check (lines 29-30 dropped)
UpdateIgnoringPause(dt, w, h) ==
    /\ ~Panicked
    /\ ticks < MaxTicks
    /\ Representable(objects)
    /\ ticks' = ticks + 1
    /\ objects' = UpdateObjects(objects, dt, w, h, ai_accuracy)
    /\ last' = Op("update", dt, objects)
    /\ UNCHANGED <<control_id, ai_accuracy, paused, width, height, inputs, probe>>

\* GameState::update(dt, w, h)
Update(dt, w, h) ==
    /\ ~Panicked
    /\ IF paused
       THEN UNCHANGED <<objects, ticks>>
       ELSE /\ ticks < MaxTicks
            /\ Representable(objects)
            /\ ticks' = ticks + 1
            /\ objects' = UpdateObjects(objects, dt, w, h, ai_accuracy)
    /\ last' = Op("update", dt, objects)
    /\ UNCHANGED <<control_id, ai_accuracy, paused, width, height, inputs, probe>>

\* A frame of the host: update with the dimensions of the last layout.  While
\* the engine is paused the call is explored with any dimensions.
Frame(dt, d) ==
    /\ paused \/ (LaidOut /\ d = <<width, height>>)
    /\ Update(dt, d[1], d[2])

\* GameState::pause
Pause(flag) ==
    /\ ~Panicked
    /\ paused' = flag
    /\ last' = Op("pause", Zero, <<>>)
    /\ UNCHANGED <<objects, control_id, ai_accuracy, width, height, ticks, inputs, probe>>

\* An input event: the host moves the object get_control returns.
HostInput(dy) ==
    /\ ~Panicked
    /\ inputs < MaxInputs
    /\ control_id < Len(objects)
    /\ inputs' = inputs + 1
    /\ objects' = [objects EXCEPT ![control_id + 1].position.y = Add(@, dy)]
    /\ last' = Op("input", Zero, <<>>)
    /\ UNCHANGED <<control_id, ai_accuracy, paused, width, height, ticks, probe>>

\* GameState::get_control with the index out of range: the indexing panics.
GetControlPanic ==
    /\ ~Panicked
    /\ control_id >= Len(objects)
    /\ last' = Op("panic", Zero, <<>>)
    /\ UNCHANGED <<objects, control_id, ai_accuracy, paused, width, height, ticks, inputs, probe>>

Next ==
    \/ \E cid \in ControlIds : HostSetup(cid)
    \/ \E d \in FieldDims : HostLayout(d)
    \/ \E dt \in DeltaTimes :
            \E d \in (IF paused THEN FieldDims ELSE {<<width, height>>}) : Frame(dt, d)
    \/ \E flag \in BOOLEAN : Pause(flag)
    \/ \E dy \in InputMoves : HostInput(dy)
    \/ GetControlPanic

Spec == Init /\ [][Next]_vars

---------------------------------------------------------------------------
(* Engines in any state: the fields of GameState and Object are public, so  *)
(* the claims about a single update are also checked from laid-out engines  *)
(* whose ball, AI paddle and accuracy hold values drawn from small sets.    *)

AnyDims == {<<F(800), F(600)>>, <<F(30), F(200)>>}

AnyAccuracies == {Zero, Rat(3, 4), One}

\* Ball positions: the reset position, one past the right edge (x = width + 1)
\* and one at the top of the field.
AnyBallPositions(w, h) ==
    LET c == Reset(NewObject("Ball", F(25), F(25)), w, h).position
    IN  {c, Vec2(Add(w, One), c.y), Vec2(c.x, Zero)}

AnyBallVelocities(w) ==
    {Vec2(vx, vy) : vx \in {Neg(Div(w, F(3200))), Zero, Div(w, F(3200))},
                    vy \in {Zero, Rat(1, 2)}}

\* A ball track heading left along y = 300 in the 800 x 600 field.
ScenarioTrack == [pos |-> Vec2(F(400), F(300)), vel |-> Vec2(F(-1), Zero)]

AnyObjects(d, bp, bv) ==
    LET objs == ResetObjects(<<NewObject("Ball", F(25), F(25)),
                               NewObject("PaddleLeft", F(25), F(100)),
                               NewObject("PaddleRight", F(25), F(100))>>, d[1], d[2])
    IN  [objs EXCEPT ![1].position = bp, ![1].velocity = bv]

InitAny ==
    /\ \E d \in AnyDims :
          /\ width = d[1]
          /\ height = d[2]
          /\ \/ \E bp \in AnyBallPositions(d[1], d[2]), bv \in AnyBallVelocities(d[1]) :
                    objects = AnyObjects(d, bp, bv)
             \/ d = <<F(800), F(600)>> /\ objects = AnyObjects(d, ScenarioTrack.pos, ScenarioTrack.vel)
    /\ control_id = 2
    /\ ai_accuracy \in AnyAccuracies
    /\ paused = FALSE
    /\ ticks = 0
    /\ inputs = 0
    /\ last = Op("any", Zero, <<>>)
    /\ probe = NoProbe

NextAny ==
    \/ \E dt \in DeltaTimes :
            \E d \in (IF paused THEN FieldDims ELSE {<<width, height>>}) : Frame(dt, d)
    \/ \E flag \in BOOLEAN : Pause(flag)

SpecAny == InitAny /\ [][NextAny]_vars

---------------------------------------------------------------------------
(* Rallies: engines as reset_objects and the input events leave them, and    *)
(* with the ball at the speeds a rally starts and ends with.                *)

\* The x-velocities of the ball: the one reset gives it and, in the 30 x 200
\* field, where the ball bounces at every tick, the cap the bounces raise it
\* to.
RallySpeeds(d) ==
    {Div(d[1], F(3200))} \cup (IF d = <<F(30), F(200)>> THEN {Div(d[1], F(400))} ELSE {})

InitRally ==
    /\ \E d \in FieldDims, dy \in {Zero} \cup InputMoves : \E vx \in RallySpeeds(d) :
          /\ width = d[1]
          /\ height = d[2]
          /\ objects = [ResetObjects(<<NewObject("Ball", F(25), F(25)),
                                       NewObject("PaddleLeft", F(25), F(100)),
                                       NewObject("PaddleRight", F(25), F(100))>>, d[1], d[2])
                          EXCEPT ![1].velocity.x = vx, ![3].position.y = Add(@, dy)]
    /\ control_id = 2
    /\ ai_accuracy = Rat(3, 4)
    /\ paused = FALSE
    /\ ticks = 0
    /\ inputs = 0
    /\ last = Op("any", Zero, <<>>)
    /\ probe = NoProbe

SpecRally == InitRally /\ [][NextAny]_vars

---------------------------------------------------------------------------
(* Layouts alone: reset_objects over a grid of field dimensions. *)

LayoutWidths ==
    {F(1), F(20), F(24), F(25), F(26), Rat(500, 19), F(27), F(30), F(50), F(100),
     F(800), F(3200)}

LayoutHeights == {F(1), F(20), F(24), Rat(49, 2), F(25), F(26), F(200), F(600), F(2400)}

InitLayout ==
    /\ objects = <<NewObject("Ball", F(25), F(25)),
                   NewObject("PaddleLeft", F(25), F(100)),
                   NewObject("PaddleRight", F(25), F(100))>>
    /\ control_id = 2
    /\ ai_accuracy = Rat(3, 4)
    /\ paused = TRUE
    /\ width = Zero
    /\ height = Zero
    /\ ticks = 0
    /\ inputs = 0
    /\ last = Op("setup", Zero, <<>>)
    /\ probe = NoProbe

NextLayout == \E w \in LayoutWidths, h \in LayoutHeights : HostLayout(<<w, h>>)

SpecLayout == InitLayout /\ [][NextLayout]_vars

---------------------------------------------------------------------------
(* is_colliding alone: the colliders of two objects placed on a grid, and    *)
(* direct calls of is_colliding on them, in either order.                   *)

\* The largest coordinate of the grid.
MaxCoord == 3

GridCoords == 0..MaxCoord

\* An object whose collider is {min: (x0, y0), max: (x1, y1)}.
Box(t, x0, y0, x1, y1) ==
    [NewObject(t, F(x1 - x0), F(y1 - y0)) EXCEPT !.position = Vec2(F(x0), F(y0))]

GridBoxes(t) ==
    {Box(t, x0, y0, x1, y1) : x0 \in GridCoords, y0 \in GridCoords,
                              x1 \in GridCoords, y1 \in GridCoords}

\* A 25 x 25 ball over the upper right corner of a 25 x 140 paddle.
ScenarioBoxes == <<Box("Ball", 100, 100, 125, 125), Box("PaddleLeft", 90, 80, 115, 220)>>

InitCollide ==
    /\ \/ \E a \in GridBoxes("Ball"), b \in GridBoxes("PaddleLeft") :
            /\ Gt(a.size.x, Zero) /\ Gt(a.size.y, Zero)
            /\ Gt(b.size.x, Zero) /\ Gt(b.size.y, Zero)
            /\ objects = <<a, b>>
       \/ objects = ScenarioBoxes
    /\ control_id = 1
    /\ ai_accuracy = Rat(3, 4)
    /\ paused = TRUE
    /\ width = Zero
    /\ height = Zero
    /\ ticks = 0
    /\ inputs = 0
    /\ last = Op("setup", Zero, <<>>)
    /\ probe = NoProbe

\* objects[i].get_collider().is_colliding(&objects[j].get_collider())
IsCollidingCall(i, j) ==
    /\ probe' = [self |-> GetCollider(objects[i]),
                 other |-> GetCollider(objects[j]),
                 hit |-> IsColliding(GetCollider(objects[i]), GetCollider(objects[j])),
                 called |-> TRUE]
    /\ last' = Op("is_colliding", Zero, <<>>)
    /\ UNCHANGED <<objects, control_id, ai_accuracy, paused, width, height, ticks, inputs>>

NextCollide == \E i \in 1..2 : IsCollidingCall(i, 3 - i)

SpecCollide == InitCollide /\ [][NextCollide]_vars

---------------------------------------------------------------------------
(* Vocabulary of the properties *)

IndexOf(objs, t) == CHOOSE i \in 1..Len(objs) : objs[i].obj_type = t

Has(objs, t) == \E i \in 1..Len(objs) : objs[i].obj_type = t

TheBall(objs) == objs[IndexOf(objs, "Ball")]

LeftPaddle(objs) == objs[IndexOf(objs, "PaddleLeft")]

\* The state follows an update call that ran (the engine was not paused).
Ticked == last.op = "update" /\ ~paused /\ last.pre # <<>>

\* The state follows an update call made while the engine was paused.
PausedUpdate == last.op = "update" /\ paused

\* The position that centres an object on the field.
CentredPosition(obj, w, h) ==
    Vec2(Sub(Half(w), Half(obj.size.x)), Sub(Half(h), Half(obj.size.y)))

\* The collider lies within [0, w] x [0, h].
InField(col, w, h) ==
    /\ Le(Zero, col.min.x)
    /\ Le(col.max.x, w)
    /\ Le(Zero, col.min.y)
    /\ Le(col.max.y, h)

\* The ball of objs, projected by its delta, collides with another object.
HitsPaddle(objs, dt, w, h) ==
    LET i == IndexOf(objs, "Ball")
        cols == Colliders(objs)
    IN  /\ ~OutOfBounds(objs[i], w)
        /\ ~AtEdge(objs[i], h)
        /\ \E o \in 1..Len(objs) :
              o # i /\ IsColliding(Project(cols[i], Delta(objs[i], dt)), cols[o])

\* The interpolation factor delta_time * 0.0015 * ai_accuracy of a tick.
Factor(dt) == Mul(Mul(dt, AiRate), ai_accuracy)

---------------------------------------------------------------------------
(* C1 *)

\* C1: a tick that starts with the ball horizontally out of bounds leaves the
\* ball centred on the field with the reset velocity (width/3200, 0), whatever
\* its velocity and the elapsed time were; the delta is not applied.
C1_OutOfBoundsReset ==
    (Ticked /\ Has(last.pre, "Ball") /\ OutOfBounds(TheBall(last.pre), width))
        => /\ TheBall(objects).position = CentredPosition(TheBall(objects), width, height)
           /\ TheBall(objects).velocity = Vec2(Div(width, F(3200)), Zero)

---------------------------------------------------------------------------
(* C2 *)

\* C2: an update call made while the engine is paused changes no field of any
\* object and none of control_id, ai_accuracy and paused, whatever its
\* arguments; pause itself changes nothing but the paused flag, so that the
\* simulation resumes from the state it was paused in.
C2_PauseFreeze ==
    [][/\ (last'.op = "update" /\ paused)
            => UNCHANGED <<objects, control_id, ai_accuracy, paused>>
       /\ (last'.op = "pause")
            => UNCHANGED <<objects, control_id, ai_accuracy>>]_vars

\* A paused update, with a positive elapsed time, of an engine that has been
\* simulated before and holds its three objects.
C2_Witness ==
    /\ PausedUpdate
    /\ Gt(last.dt, Zero)
    /\ ticks > 0
    /\ Len(objects) = 3
    /\ objects = last.pre

---------------------------------------------------------------------------
(* C3 *)

\* C3: after a tick in which the ball bounced off a paddle, its velocity is
\* within its caps: |velocity.x| <= max_velocity.x (width/400) and
\* |velocity.y| <= max_velocity.y (height/400), for every positive field.
C3_VelocityClamp ==
    (Ticked /\ LaidOut /\ Has(last.pre, "Ball")
        /\ HitsPaddle(last.pre, last.dt, width, height))
        => /\ Le(AbsF(TheBall(objects).velocity.x), TheBall(objects).max_velocity.x)
           /\ Le(AbsF(TheBall(objects).velocity.y), TheBall(objects).max_velocity.y)

\* The x half of C3 alone, which the clamp of line 88 enforces.
C3_ClampX ==
    (Ticked /\ LaidOut /\ Has(last.pre, "Ball")
        /\ HitsPaddle(last.pre, last.dt, width, height))
        => Le(AbsF(TheBall(objects).velocity.x), TheBall(objects).max_velocity.x)

---------------------------------------------------------------------------
(* C4 *)

AllInField == \A i \in 1..Len(objects) : InField(GetCollider(objects[i]), width, height)

\* C4 as stated: right after reset_objects(width, height), for every positive
\* width and height, every object's collider lies within [0, width] x
\* [0, height].
C4_BoundsAfterReset_AnyField == (last.op = "reset") => AllInField

\* C4 as amended: right after reset_objects(width, height) with
\* width >= 500/19 (so that a 25-wide paddle inset by 5% fits) and height >= 25
\* (the ball's height), every object's collider lies within [0, width] x
\* [0, height].
C4_BoundsAfterReset ==
    (last.op = "reset" /\ Ge(width, Rat(500, 19)) /\ Ge(height, F(25))) => AllInField

\* A layout at the smallest field of the amended claim.
C4_Witness ==
    /\ last.op = "reset"
    /\ width = Rat(500, 19)
    /\ height = F(25)
    /\ Len(objects) = 3
    /\ AllInField

\* The amended bounds are the least ones: below either, some collider leaves
\* the field.
C4_BoundsAreTight ==
    (last.op = "reset" /\ ~(Ge(width, Rat(500, 19)) /\ Ge(height, F(25)))) => ~AllInField

---------------------------------------------------------------------------
(* C5 *)

IsPaddle(obj) == obj.obj_type \in {"PaddleLeft", "PaddleRight"}

\* C5: when control_id selects a paddle, an update call changes neither the
\* position nor the velocity of the object at control_id: the AI rule moves
\* only the paddle that is not the controlled one.
C5_HumanPaddlePassive ==
    (last.op = "update" /\ control_id < Len(last.pre) /\ IsPaddle(last.pre[control_id + 1]))
        => /\ objects[control_id + 1].position = last.pre[control_id + 1].position
           /\ objects[control_id + 1].velocity = last.pre[control_id + 1].velocity

\* What holds instead: update moves PaddleLeft by the AI rule and leaves
\* PaddleRight alone, whichever of them control_id selects.
C5_RightPaddlePassive ==
    (last.op = "update" /\ last.pre # <<>>)
        => \A i \in 1..Len(objects) :
              objects[i].obj_type = "PaddleRight" => objects[i] = last.pre[i]

---------------------------------------------------------------------------
(* C6 *)

\* C6: in every state reachable from GameState::new(), control_id is less than
\* the number of objects, and get_control never fails.
C6_ControlIndexValid == control_id < Len(objects) /\ ~Panicked

\* What holds instead: the index is in range once the host has filled the
\* engine.
C6_ValidAfterSetup == (objects # <<>>) => (control_id < Len(objects) /\ ~Panicked)

---------------------------------------------------------------------------
(* C7 *)

ObjectOrders == {p \in [1..3 -> 1..3] : \A i, j \in 1..3 : p[i] = p[j] => i = j}

Reorder(objs, p) == [i \in 1..Len(objs) |-> objs[p[i]]]

\* C7: one update of an unpaused engine gives every object the same position
\* and velocity in whatever order the engine holds its three objects, also
\* when the projected ball collides with more than one of them.
C7_OrderIndependent ==
    (~paused /\ LaidOut /\ Len(objects) = 3 /\ Representable(objects))
        => \A dt \in DeltaTimes : \A p \in ObjectOrders :
              UpdateObjects(Reorder(objects, p), dt, width, height, ai_accuracy)
                = Reorder(UpdateObjects(objects, dt, width, height, ai_accuracy), p)

\* What holds instead: the order is not observable in a tick whose projected
\* ball collides with at most one other object.
C7_OrderIndependentSingleHit ==
    (~paused /\ LaidOut /\ Len(objects) = 3 /\ Representable(objects))
        => \A dt \in DeltaTimes :
              (Cardinality({o \in 2..3 :
                    IsColliding(Project(GetCollider(objects[1]), Delta(objects[1], dt)),
                                GetCollider(objects[o]))}) <= 1)
              => \A p \in ObjectOrders :
                    UpdateObjects(Reorder(objects, p), dt, width, height, ai_accuracy)
                      = Reorder(UpdateObjects(objects, dt, width, height, ai_accuracy), p)

---------------------------------------------------------------------------
(* C8 *)

\* The AI paddle before the last update, its collider and the ball track that
\* update worked from.
PreLeft == LeftPaddle(last.pre)

PreTrack == BallTrack(last.pre)

AiTicked == Ticked /\ LaidOut /\ Has(last.pre, "Ball") /\ Has(last.pre, "PaddleLeft")

\* C8: in an unpaused tick whose ball track has x-velocity zero, the AI paddle
\* takes the ball as not approaching, does not enter the branch that divides
\* by the x-velocity, moves toward the fallback target, and ends at a finite
\* position.y within the field.
C8_ZeroVelocityGuard ==
    (AiTicked /\ PreTrack.vel.x = Zero)
        => /\ ~IsIncoming(GetCollider(PreLeft), PreTrack)
           /\ ~Intercepts(PreLeft, GetCollider(PreLeft), PreTrack, height)
           /\ LeftPaddle(objects).position.y
                = Interpolate(PreLeft, DefaultTarget(PreLeft, height), last.dt, height,
                              ai_accuracy)
           /\ IsFinite(LeftPaddle(objects).position.y)
           /\ Le(Zero, LeftPaddle(objects).position.y)
           /\ Le(LeftPaddle(objects).position.y, Sub(height, LeftPaddle(objects).size.y))

\* A tick with a positive elapsed time and accuracy whose ball had x-velocity
\* zero and a non-zero y-velocity, and moved the AI paddle.
C8_Witness ==
    /\ AiTicked
    /\ PreTrack.vel.x = Zero
    /\ PreTrack.vel.y # Zero
    /\ Gt(Factor(last.dt), Zero)
    /\ LeftPaddle(objects).position.y # PreLeft.position.y

---------------------------------------------------------------------------
(* C9 *)

\* C9: after every unpaused tick of a laid-out engine, whatever the elapsed
\* time and the accuracy, the AI paddle is within the field:
\* 0 <= position.y <= height - size.y.
C9_AiPaddleInField ==
    AiTicked
        => /\ Le(Zero, LeftPaddle(objects).position.y)
           /\ Le(LeftPaddle(objects).position.y, Sub(height, LeftPaddle(objects).size.y))

\* A tick whose interpolation factor exceeds 1 and whose interpolation left
\* the field, so that the clamp put the paddle on the field's edge.
C9_Witness ==
    /\ AiTicked
    /\ Gt(Factor(last.dt), One)
    /\ Lt(InterpolateUnclamped(PreLeft,
                               Target(PreLeft, GetCollider(PreLeft), PreTrack, height),
                               last.dt, height, ai_accuracy), Zero)
    /\ LeftPaddle(objects).position.y = Zero

---------------------------------------------------------------------------
(* C10 *)

\* The distance of a position.y from the one that centres the paddle.
OffCentre(obj, y) == AbsF(Sub(y, Sub(Half(height), Half(obj.size.y))))

\* C10: in a tick whose ball is not approaching the AI paddle, a vertically
\* centred paddle (position.y = height/2 - size.y/2) stays where it is, and
\* with 0 < delta_time * 0.0015 * ai_accuracy <= 1 any other paddle ends
\* strictly closer to the centred position, on the side it started from.
C10_CentreFallback ==
    (AiTicked /\ ~IsIncoming(GetCollider(PreLeft), PreTrack))
        => LET c == Sub(Half(height), Half(PreLeft.size.y))
               y0 == PreLeft.position.y
               y1 == LeftPaddle(objects).position.y
           IN  /\ (y0 = c) => (y1 = c)
               /\ (y0 # c /\ Gt(Factor(last.dt), Zero) /\ Le(Factor(last.dt), One))
                    => /\ Lt(OffCentre(PreLeft, y1), OffCentre(PreLeft, y0))
                       /\ (Lt(y0, c) => Le(y1, c))
                       /\ (Gt(y0, c) => Ge(y1, c))

\* What holds instead: the fallback moves position.y toward height/2 - size.y,
\* half a paddle height above the centred position.
C10_FallbackFixedPoint ==
    (AiTicked /\ ~IsIncoming(GetCollider(PreLeft), PreTrack))
        => (PreLeft.position.y = Sub(Half(height), PreLeft.size.y)
              => LeftPaddle(objects).position.y = PreLeft.position.y)

---------------------------------------------------------------------------
(* C11 *)

\* The objects of objs, other than its ball, that the ball's collider projected
\* by its delta collides with.
Hits(objs, dt) ==
    LET i == IndexOf(objs, "Ball")
        cols == Colliders(objs)
    IN  {o \in 1..Len(objs) :
            o # i /\ IsColliding(Project(cols[i], Delta(objs[i], dt)), cols[o])}

\* The velocity.x of a reversed ball: the opposite sign, the magnitude
\* min(1.15 * |velocity.x|, max_velocity.x).
Reversed(ball) ==
    LET m == Mul(AbsF(ball.velocity.x), BounceGain)
        mag == IF Lt(ball.max_velocity.x, m) THEN ball.max_velocity.x ELSE m
    IN  IF Gt(ball.velocity.x, Zero) THEN Neg(mag) ELSE mag

\* The ball was displaced by minus its delta.
DisplacedBack(pre, post, dt) ==
    post.position = VAdd(pre.position, Vec2(Neg(Delta(pre, dt).x), Neg(Delta(pre, dt).y)))

\* C11: in an unpaused tick whose ball is horizontally in bounds and, projected
\* by its delta, collides with at least one paddle, the ball's velocity.x ends
\* reversed, of magnitude min(1.15 * |velocity.x|, max_velocity.x), and the
\* ball is displaced by -delta; wherever the ball is vertically and however
\* many objects it collides with.
C11_PaddleBounceReverses ==
    (Ticked /\ LaidOut /\ Has(last.pre, "Ball")
        /\ ~OutOfBounds(TheBall(last.pre), width)
        /\ Hits(last.pre, last.dt) # {})
        => /\ TheBall(objects).velocity.x = Reversed(TheBall(last.pre))
           /\ DisplacedBack(TheBall(last.pre), TheBall(objects), last.dt)

\* What holds instead: the ball is reversed when it is outside the edge band
\* and collides with exactly one object.
C11_SingleBounceReverses ==
    (Ticked /\ LaidOut /\ Has(last.pre, "Ball")
        /\ ~OutOfBounds(TheBall(last.pre), width)
        /\ ~AtEdge(TheBall(last.pre), height)
        /\ Cardinality(Hits(last.pre, last.dt)) = 1)
        => /\ TheBall(objects).velocity.x = Reversed(TheBall(last.pre))
           /\ DisplacedBack(TheBall(last.pre), TheBall(objects), last.dt)

\* In the edge band the paddles are not looked at: a ball that collides there is
\* not reversed.
C11_EdgeBandSkipsPaddles ==
    (Ticked /\ LaidOut /\ Has(last.pre, "Ball")
        /\ ~OutOfBounds(TheBall(last.pre), width)
        /\ AtEdge(TheBall(last.pre), height))
        => TheBall(objects).velocity.x = TheBall(last.pre).velocity.x

\* Ticks the statements about C11 are about: a single bounce outside the edge
\* band, and a collision inside it.
C11_SingleBounceSeen ==
    /\ Ticked /\ LaidOut /\ Has(last.pre, "Ball")
    /\ ~OutOfBounds(TheBall(last.pre), width)
    /\ ~AtEdge(TheBall(last.pre), height)
    /\ Cardinality(Hits(last.pre, last.dt)) = 1
    /\ TheBall(last.pre).velocity.x # Zero
    /\ Gt(last.dt, Zero)

C11_EdgeBandHitSeen ==
    /\ Ticked /\ LaidOut /\ Has(last.pre, "Ball")
    /\ ~OutOfBounds(TheBall(last.pre), width)
    /\ AtEdge(TheBall(last.pre), height)
    /\ Hits(last.pre, last.dt) # {}
    /\ TheBall(last.pre).velocity.x # Zero

---------------------------------------------------------------------------
(* C12 *)

\* The closed interval between p and q meets the one between r and s.
RangesMeet(p, q, r, s) ==
    LET lo1 == IF Lt(p, q) THEN p ELSE q
        hi1 == IF Lt(p, q) THEN q ELSE p
        lo2 == IF Lt(r, s) THEN r ELSE s
        hi2 == IF Lt(r, s) THEN s ELSE r
    IN  Le(lo1, hi2) /\ Le(lo2, hi1)

\* Two axis-aligned segments share at least one point.
SegmentsMeet(s1, s2) ==
    /\ RangesMeet(s1[1].x, s1[2].x, s2[1].x, s2[2].x)
    /\ RangesMeet(s1[1].y, s1[2].y, s2[1].y, s2[2].y)

\* Some boundary segment of a shares a point with some boundary segment of b.
BoundariesMeet(a, b) ==
    \E i \in 1..4 : \E j \in 1..4 : SegmentsMeet(GetHitbox(a)[i], GetHitbox(b)[j])

\* The boxes are separated by a gap along some axis.
Separated(a, b) ==
    \/ Lt(a.max.x, b.min.x) \/ Lt(b.max.x, a.min.x)
    \/ Lt(a.max.y, b.min.y) \/ Lt(b.max.y, a.min.y)

\* C12: is_colliding(A, B) is true exactly when some boundary segment of A
\* shares a point with some boundary segment of B, also for boxes with aligned
\* or identical edges; it is false for boxes separated by a gap; and it gives
\* the same answer for (B, A).
C12_EdgeIntersection ==
    probe.called
        => /\ probe.hit = BoundariesMeet(probe.self, probe.other)
           /\ Separated(probe.self, probe.other) => ~probe.hit
           /\ probe.hit = IsColliding(probe.other, probe.self)

\* A reported collision is a real one: the boundaries share a point, and the
\* boxes are not separated by a gap.
C12_HitIsSound ==
    probe.called => (probe.hit => (BoundariesMeet(probe.self, probe.other)
                                      /\ ~Separated(probe.self, probe.other)))

\* The answer does not depend on the order of the two colliders.
C12_Symmetric == probe.called => (probe.hit = IsColliding(probe.other, probe.self))

\* p lies strictly between q and r.
Within(p, q, r) == (Lt(q, p) /\ Lt(p, r)) \/ (Lt(r, p) /\ Lt(p, q))

\* A horizontal and a vertical segment that cross at a point interior to both.
CrossProperly(s1, s2) ==
    \/ /\ s1[1].y = s1[2].y /\ s2[1].x = s2[2].x
       /\ Within(s2[1].x, s1[1].x, s1[2].x) /\ Within(s1[1].y, s2[1].y, s2[2].y)
    \/ /\ s1[1].x = s1[2].x /\ s2[1].y = s2[2].y
       /\ Within(s1[1].x, s2[1].x, s2[2].x) /\ Within(s2[1].y, s1[1].y, s1[2].y)

BoundariesCross(a, b) ==
    \E i \in 1..4 : \E j \in 1..4 : CrossProperly(GetHitbox(a)[i], GetHitbox(b)[j])

\* Boundaries that cross at a point interior to both segments are reported.
C12_CrossingIsHit ==
    probe.called => (BoundariesCross(probe.self, probe.other) => probe.hit)

\* A collision is reported only for boundaries that cross properly or touch.
C12_HitOnlyIfCrossing ==
    probe.called => (probe.hit => BoundariesCross(probe.self, probe.other))

\* The scenario of the ball over the paddle's corner is reported.
C12_Scenario ==
    (probe.called /\ objects = ScenarioBoxes) => probe.hit

\* The interiors of the boxes overlap.
Overlap(a, b) ==
    /\ Lt(a.min.x, b.max.x) /\ Lt(b.min.x, a.max.x)
    /\ Lt(a.min.y, b.max.y) /\ Lt(b.min.y, a.max.y)

\* a lies strictly inside b.
StrictlyInside(a, b) ==
    /\ Lt(b.min.x, a.min.x) /\ Lt(a.max.x, b.max.x)
    /\ Lt(b.min.y, a.min.y) /\ Lt(a.max.y, b.max.y)

\* The part of C12 about overlapping boxes: boxes that overlap, neither
\* strictly inside the other, are reported.  It fails with the whole: two
\* identical boxes overlap and are not reported.
C12_OverlapIsHit ==
    (probe.called /\ Overlap(probe.self, probe.other)
        /\ ~StrictlyInside(probe.self, probe.other)
        /\ ~StrictlyInside(probe.other, probe.self))
        => probe.hit

---------------------------------------------------------------------------
(* C13 *)

\* C13: in the state reset_objects(width, height) leaves, whatever ticks and
\* inputs came before it, a second reset_objects(width, height) changes no
\* field of any object.
C13_ResetIdempotent ==
    (last.op = "reset") => (ResetObjects(objects, width, height) = objects)

\* A reset of an engine that has been simulated and whose controlled paddle has
\* been moved by input, in a field other than the one the objects were built
\* for.
C13_Witness ==
    /\ last.op = "reset"
    /\ ticks > 0
    /\ inputs > 0
    /\ Len(objects) = 3
    /\ LeftPaddle(objects).size.y # F(100)
    /\ ResetObjects(objects, width, height) = objects

---------------------------------------------------------------------------
(* C14 *)

RightPaddle(objs) == objs[IndexOf(objs, "PaddleRight")]

\* C14: after reset(width, height) the ball has velocity (width/3200, 0),
\* max_velocity (width/400, height/400), its 25 x 25 size and the position
\* (width/2 - size.x/2, height/2 - size.y/2); each paddle has
\* size.y = 0.25 * height and position.y = height/2 - size.y/2, the left one
\* position.x = 0.05 * width and the right one 0.95 * width - size.x.  In the
\* 800 x 600 field these are (0.25, 0), (2, 1.5), (387.5, 287.5), 40 and 735.
C14_CanonicalReset ==
    (last.op = "reset")
        => LET b == TheBall(objects)
               l == LeftPaddle(objects)
               r == RightPaddle(objects)
           IN  /\ b.velocity = Vec2(Rat(width[1], 3200 * width[2]), Zero)
               /\ b.max_velocity = Vec2(Rat(width[1], 400 * width[2]),
                                        Rat(height[1], 400 * height[2]))
               /\ b.size = Vec2(F(25), F(25))
               /\ Add(b.position.x, Half(b.size.x)) = Half(width)
               /\ Add(b.position.y, Half(b.size.y)) = Half(height)
               /\ \A p \in {l, r} :
                     /\ Mul(p.size.y, F(4)) = height
                     /\ p.size.x = F(25)
                     /\ Add(p.position.y, Half(p.size.y)) = Half(height)
               /\ Mul(l.position.x, F(20)) = width
               /\ Mul(Add(r.position.x, r.size.x), F(20)) = Mul(width, F(19))
               /\ (width = F(800) /\ height = F(600))
                     => /\ b.velocity = Vec2(Rat(1, 4), Zero)
                        /\ b.max_velocity = Vec2(F(2), Rat(3, 2))
                        /\ b.position = Vec2(Rat(775, 2), Rat(575, 2))
                        /\ l.position = Vec2(F(40), F(225))
                        /\ r.position = Vec2(F(735), F(225))

\* A reset to the 800 x 600 field of an engine that has been simulated and
\* whose controlled paddle has been moved.
C14_Witness ==
    /\ last.op = "reset"
    /\ width = F(800)
    /\ height = F(600)
    /\ ticks > 0
    /\ inputs > 0
    /\ TheBall(objects).position = Vec2(Rat(775, 2), Rat(575, 2))

---------------------------------------------------------------------------
(* C15 *)

\* The ball of the track is approaching the AI paddle: the paddle's centre is
\* left of the ball and the ball moves left, or it is not and the ball moves
\* right.
Approaching ==
    LET pcx == Add(PreLeft.position.x, Half(PreLeft.size.x))
    IN  \/ Lt(pcx, PreTrack.pos.x) /\ Lt(PreTrack.vel.x, Zero)
        \/ ~Lt(pcx, PreTrack.pos.x) /\ Gt(PreTrack.vel.x, Zero)

\* The time t = (paddle_center.x - ball.x) / ball.velocity.x.
ArrivalTime ==
    Div(Sub(Add(PreLeft.position.x, Half(PreLeft.size.x)), PreTrack.pos.x), PreTrack.vel.x)

\* ball.y + ball.velocity.y * t
ArrivalY == Add(PreTrack.pos.y, Mul(PreTrack.vel.y, ArrivalTime))

\* The target: the arrival y, or 0.25 * height below 0 and 0.75 * height
\* above height.
ArrivalTarget ==
    IF Lt(ArrivalY, Zero) THEN Div(height, F(4))
    ELSE IF Gt(ArrivalY, height) THEN Div(Mul(height, F(3)), F(4))
    ELSE ArrivalY

\* The position.y a paddle at y0 is moved to by a tick that aims at target.
MovedToward(target, y0, size_y, dt) ==
    LET y == Add(y0, Mul(Sub(Sub(target, Half(size_y)), y0), Factor(dt)))
    IN  IF Lt(y, Zero) THEN Zero
        ELSE IF Gt(y, Sub(height, size_y)) THEN Sub(height, size_y)
        ELSE y

\* C15: in a tick whose ball is approaching the AI paddle the time t is not
\* negative and the paddle is moved toward the target ball.y + velocity.y * t,
\* redirected to 0.25 * height below 0 and to 0.75 * height above height; with
\* velocity.y = 0 the arrival y is the ball's y.
C15_InterceptionTarget ==
    (AiTicked /\ Approaching)
        => /\ Ge(ArrivalTime, Zero)
           /\ (PreTrack.vel.y = Zero) => (ArrivalY = PreTrack.pos.y)
           /\ LeftPaddle(objects).position.y
                = MovedToward(ArrivalTarget, PreLeft.position.y, PreLeft.size.y, last.dt)
           /\ (PreTrack = ScenarioTrack /\ PreLeft.position.x = F(40))
                => ArrivalTarget = F(300)

\* The tick of the scenario: ball track (400, 300) with velocity (-1, 0), the
\* paddle at x = 40 and accuracy 1.
C15_ScenarioSeen ==
    /\ AiTicked /\ Approaching
    /\ PreTrack = ScenarioTrack
    /\ PreLeft.position.x = F(40)
    /\ ai_accuracy = One
    /\ Gt(Factor(last.dt), Zero)

\* Ticks with an approaching ball that moved the paddle: one aiming at the
\* arrival y itself, one redirected to 0.75 * height, one to 0.25 * height.
C15_Witness ==
    /\ AiTicked /\ Approaching
    /\ Gt(Factor(last.dt), Zero)
    /\ PreTrack.vel.y # Zero
    /\ ArrivalTarget = ArrivalY
    /\ LeftPaddle(objects).position.y # PreLeft.position.y

C15_RedirectedDownSeen ==
    /\ AiTicked /\ Approaching
    /\ Gt(Factor(last.dt), Zero)
    /\ Gt(ArrivalY, height)
    /\ LeftPaddle(objects).position.y # PreLeft.position.y

C15_RedirectedUpSeen ==
    /\ AiTicked /\ Approaching
    /\ Gt(Factor(last.dt), Zero)
    /\ Lt(ArrivalY, Zero)
    /\ LeftPaddle(objects).position.y # PreLeft.position.y

---------------------------------------------------------------------------
(* C16 *)

\* The tick started with the ball in bounds horizontally and beyond the top
\* edge (centre y < size.y/2), or beyond the bottom edge
\* (centre y > height - size.y/2): the edge check fired.
EdgeTicked ==
    Ticked /\ LaidOut /\ Has(last.pre, "Ball")
        /\ ~OutOfBounds(TheBall(last.pre), width)
        /\ AtEdge(TheBall(last.pre), height)

BeyondTop(obj) == Lt(GetCenter(obj).y, Half(obj.size.y))

BeyondBottom(obj, h) == Gt(GetCenter(obj).y, Sub(h, Half(obj.size.y)))

\* C16: a tick in which the edge check fired leaves the ball's velocity.y
\* pointing into the field (>= 0 beyond the top edge, <= 0 beyond the bottom
\* edge) and displaces the ball in y toward the field, whatever the elapsed
\* times of the ticks before it; so no two edge bounces in a row leave the
\* ball moving outward.
C16_EdgeBounceInward ==
    EdgeTicked
        => LET b0 == TheBall(last.pre)
               b1 == TheBall(objects)
           IN  /\ BeyondTop(b0)
                    => Ge(b1.velocity.y, Zero) /\ Ge(b1.position.y, b0.position.y)
               /\ BeyondBottom(b0, height)
                    => Le(b1.velocity.y, Zero) /\ Le(b1.position.y, b0.position.y)

\* What holds instead: the edge check flips velocity.y whatever its direction,
\* and displaces the ball by 1.2 times its delta, reversed.
C16_EdgeBounceFlips ==
    EdgeTicked
        => LET b0 == TheBall(last.pre)
               b1 == TheBall(objects)
           IN  /\ b1.velocity = Vec2(b0.velocity.x, Neg(b0.velocity.y))
               /\ b1.position.y
                    = Sub(b0.position.y, Mul(Mul(b0.velocity.y, last.dt), EdgeGain))

---------------------------------------------------------------------------
(* C17 *)

\* C17: in every state that ticks reach from reset_objects(width, height),
\* with paddle bounces, edge bounces and out-of-bounds resets, the ball's
\* velocity.x is not zero: width/3200 <= |velocity.x| <= width/400.
C17_NeverStatic ==
    (LaidOut /\ Has(objects, "Ball"))
        => /\ TheBall(objects).velocity.x # Zero
           /\ Le(Div(width, F(3200)), AbsF(TheBall(objects).velocity.x))
           /\ Le(AbsF(TheBall(objects).velocity.x), Div(width, F(400)))

\* A paddle bounce that the cap cut: 1.15 times the x-velocity was beyond
\* max_velocity.x.
C17_Witness ==
    /\ Ticked /\ LaidOut
    /\ HitsPaddle(last.pre, last.dt, width, height)
    /\ Gt(Mul(AbsF(TheBall(last.pre).velocity.x), BounceGain), Div(width, F(400)))
    /\ AbsF(TheBall(objects).velocity.x) = Div(width, F(400))

\* Ticks of the other kinds: a bounce that raised a speed below the cap, an
\* edge bounce of a moving ball and an out-of-bounds reset.
C17_RaisedSeen ==
    /\ Ticked /\ LaidOut
    /\ HitsPaddle(last.pre, last.dt, width, height)
    /\ Gt(AbsF(TheBall(objects).velocity.x), AbsF(TheBall(last.pre).velocity.x))
    /\ Lt(AbsF(TheBall(objects).velocity.x), Div(width, F(400)))

C17_EdgeBounceSeen == EdgeTicked /\ TheBall(last.pre).velocity.y # Zero

C17_ResetSeen ==
    /\ Ticked /\ LaidOut
    /\ OutOfBounds(TheBall(last.pre), width)
    /\ Gt(last.dt, Zero)

====
